---- MODULE Spec2Model ----
(***************************************************************************)
(* Lifecycle model of MultiCarlaEnv (src/env/carla/multi_env.py): the      *)
(* simulator process and client, the actor registry, reset() with its      *)
(* retry loop, step() with its degraded result, reward and done            *)
(* bookkeeping.  The simulator, sensors, planner and reward function are   *)
(* external: what they return and where they fail are inputs of the        *)
(* actions.                                                                *)
(***************************************************************************)
EXTENDS Integers, Sequences, FiniteSets, TLC

VARIABLES
  configs,               \* the configs argument of __init__ (immutable)
  self,                  \* the fields of the MultiCarlaEnv instance
  live_carla_processes,  \* module-level registry of simulator process groups
  os,                    \* the host: process groups launched / killed so far
  pc,                    \* position: "idle", in reset()'s loop ("reset"),
                         \* in init_server's loop ("connecting"), "returned",
                         \* or "exited" when the host process is gone
  retry,                 \* loop variable of reset()
  error,                 \* local variable `error` of reset()
  ret,                   \* what the call that just finished returned or raised
  sim,                   \* the surroundings of this run (immutable)
  hist,                  \* history: rewards returned per agent, failures so
                         \* far, and the call and the part of it the host
                         \* process was in when it ended
  others                 \* the simulator process groups that the other
                         \* environment instances of the host process have
                         \* launched: TRUE while the instance holds the
                         \* process (its server_process), FALSE once it has
                         \* cleared it

vars ==
  <<configs, sim, self, live_carla_processes, os, pc, retry, error, ret, hist,
    others>>

----------------------------------------------------------------------------
(* Bounds of the model *)

\* step() is not called for an agent whose step counter has reached this
MaxNumSteps == 3

\* reset() is not called once fewer than RETRIES_ON_ERROR launches remain
MaxLaunches == 7

\* the simulator fails at most this many times
MaxFaults == 1

\* other environment instances of the host process launch at most this many
\* simulators
MaxOtherEnvs == 2

\* reset() is not called once the simulator holds this many sensors of a
\* kind for an agent's actor
MaxSensors == 2

(* Program constants *)

RETRIES_ON_ERROR == 5

\* the configured agent ids, in the order of the actor_configs dict
AgentOrder == <<"a1", "a2">>

Agents == {AgentOrder[i] : i \in 1..Len(AgentOrder)}

\* an agent id no configuration names
Ghost == "zz"

\* what a step's raw readings show: nothing special, the planner's
\* REACH_GOAL command, or a positive collision counter
Readings == {"clear", "goal", "collided"}

\* the rewards the reward function input is drawn from
Rewards == {-101, 1}

----------------------------------------------------------------------------
(* Python values *)

NoneV == [type |-> "NoneType"]

Float(x) == [type |-> "float", f |-> x]

Dict(f) == [type |-> "dict", d |-> f]

\* a list of numbers, in hundredths
List(v) == [type |-> "list", l |-> v]

Index(i) == [type |-> "int", i |-> i]

EmptyDict == [k \in {} |-> 0]

Put(d, k, v) == [x \in (DOMAIN d) \cup {k} |-> IF x = k THEN v ELSE d[x]]

Has(d, k) == k \in DOMAIN d

\* a call's result: the state it leaves, the exception it raised ("" if
\* none) and the value it returned
Ok(s, v) == [s |-> s, exc |-> "", val |-> v]

Raise(s, e) == [s |-> s, exc |-> e, val |-> NoneV]

NoneActor == [st |-> "None", server |-> 0, z |-> 0]

\* a handle whose simulator process is not the running one: every call
\* through it fails, the simulator being dead
Stale(s, handle) == handle.server # s.server_process

NoneImage == [actor |-> "None", frame |-> 0]

NoScenario == [name |-> "None", max_steps |-> 0]

\* the ids of the start and end positions of the scenarios, by name
Routes == [S0 |-> <<1, 2>>, S1 |-> <<1, 2>>, S2 |-> <<3, 4>>, S3 |-> <<5, 2>>]

Scenario(n, m) ==
  [name |-> n, max_steps |-> m,
   start_pos_id |-> Routes[n][1], end_pos_id |-> Routes[n][2]]

\* the coordinates of the town's positions, in hundredths
pos_coor_map == [i \in 1..5 |-> <<1000 * i, 2000 * i, 22>>]

----------------------------------------------------------------------------
(* Configuration *)

ActorConfig(scen, early, send) ==
  [scenarios |-> scen, early_terminate_on_collision |-> early,
   send_measurements |-> send, log_measurements |-> FALSE]

\* the configurations the environment is constructed with: two actors with
\* different scenarios, termination and observation settings, and a frame
\* stack depth that is supported (1, 2) or not (3)
Config(depth) ==
  [framestack |-> depth, discrete_actions |-> FALSE,
   actors |-> [a \in Agents |->
      IF a = "a1" THEN ActorConfig({Scenario("S1", 1)}, FALSE, FALSE)
                  ELSE ActorConfig({Scenario("S2", 2)}, TRUE, TRUE)]]

\* the surroundings of a run: the action dicts the caller passes (their
\* keys in order, the lengths of the actions), the rewards and readings the
\* simulator side yields for each actor's steps, how many of the
\* simulator's calls may fail, how many simulators other environment
\* instances of the host process launch, whether those instances clear
\* their server state, whether the caller is the program's own __main__
\* (which writes into the done map it gets and calls clean_world when it is
\* done), and whether the host process ends, by leaving the program or by a
\* signal
Yields(rewards, readings) == [reward : rewards, reading : readings]

\* the continuous action the caller in __main__ passes, `[1, 0]`, and an
\* action with one component too many
GoStraight == List(<<100, 0>>)

Misshapen == List(<<100, 0, 0>>)

\* the action dict keys a caller passes, in iteration order
Ids == Agents \cup {Ghost}

Orders ==
  {<<>>} \cup {<<a>> : a \in Ids} \cup {o \in Ids \X Ids : o[1] # o[2] /\ o[1] # Ghost}

PlainSim ==
  [orders |-> Orders, actions |-> {GoStraight},
   yields |-> [a \in Agents |-> Yields({1}, {"clear"})], max_faults |-> 0,
   envs |-> 0, clears |-> FALSE, main |-> FALSE, signals |-> FALSE]

\* every reading, for both actors, the caller stepping one actor or both,
\* writing into the done map and cleaning the world as __main__ does
ReadingsSim ==
  [PlainSim EXCEPT !.orders = {<<"a2">>, <<"a1", "a2">>},
                   !.yields = [a \in Agents |-> Yields({1}, Readings)],
                   !.main = TRUE]

\* every reward, for both actors, with and without a collision of the actor
\* that has no early termination, the caller stepping all actors at once
RewardsSim ==
  [PlainSim EXCEPT !.orders = {<<"a1", "a2">>},
                   !.yields = [a \in Agents |->
                      Yields(Rewards, IF a = "a1" THEN {"clear", "collided"}
                                      ELSE {"clear"})]]

\* failing simulator calls and refused actions, the caller stepping all
\* actors at once
FaultySim ==
  [PlainSim EXCEPT !.orders = {<<"a1", "a2">>, <<"a2", "a1">>},
                   !.actions = {GoStraight, Misshapen}, !.max_faults = MaxFaults]

\* the indices of the table of discrete actions and one beyond it, the
\* caller stepping one actor
DiscreteSim ==
  [PlainSim EXCEPT !.orders = {<<"a1">>},
                   !.actions = {Index(i) : i \in 0..9}]

\* several environments in one host process, which clear their server
\* state at times and which a signal may end; the caller is the program's
\* __main__
SignalSim ==
  [PlainSim EXCEPT !.orders = {<<"a1", "a2">>}, !.envs = MaxOtherEnvs,
                   !.clears = TRUE, !.main = TRUE, !.signals = TRUE]

\* one actor reaching its goal or not, stepped alone
LoggingSim ==
  [PlainSim EXCEPT !.orders = {<<"a1">>},
                   !.yields["a1"] = Yields({1}, {"clear", "goal"}),
                   !.signals = TRUE]

\* the configuration in which the measurements of that actor are logged
LoggingConfig == [Config(2) EXCEPT !.actors["a1"].log_measurements = TRUE]

\* the configuration in which the scenario resolved last has no step to
\* spare, so that the step budget ends episodes
ShortConfig == [Config(2) EXCEPT !.actors["a2"].scenarios = {Scenario("S0", 0)}]

\* one actor or both stepped until the budget ends the episode
BudgetSim == [PlainSim EXCEPT !.orders = {<<"a1">>, <<"a1", "a2">>}]

\* failing simulator calls while another environment of the host process
\* runs its simulator
SharedSim ==
  [FaultySim EXCEPT !.orders = {<<"a1", "a2">>}, !.actions = {GoStraight},
                    !.envs = 1]

\* the configuration in which the scenario of one actor is drawn out of two
\* that differ in their start position
ChoiceConfig ==
  [Config(2) EXCEPT !.actors["a1"].scenarios = {Scenario("S1", 1), Scenario("S3", 1)}]

\* failing simulator calls, and an actor that reaches its goal at once
ChoiceSim ==
  [FaultySim EXCEPT !.orders = {<<"a1", "a2">>}, !.actions = {GoStraight},
                    !.yields["a1"] = Yields({1}, {"goal"})]

\* a simulator that may fail or stay silent, under the program's __main__
\* in a host process with another environment, which a signal may end
HangSim ==
  [PlainSim EXCEPT !.orders = {<<"a1", "a2">>}, !.max_faults = MaxFaults,
                   !.envs = 1, !.clears = TRUE, !.main = TRUE,
                   !.signals = TRUE]

\* failing simulator calls under the program's __main__, in a host process
\* which a signal may end
InterruptSim ==
  [PlainSim EXCEPT !.orders = {<<"a1", "a2">>}, !.max_faults = MaxFaults,
                   !.main = TRUE, !.signals = TRUE]

\* simulator calls that fail after the readings of the step were taken: a
\* collision or the goal, for an actor stepped alone
LateSim ==
  [PlainSim EXCEPT !.orders = {<<"a2">>}, !.max_faults = MaxFaults,
                   !.yields["a2"] = Yields({1}, {"collided", "goal"})]

\* the configuration with discrete actions
DiscreteConfig == [Config(2) EXCEPT !.discrete_actions = TRUE]

\* the runs explored: a configuration and its surroundings
Runs == { <<Config(2), ReadingsSim>>, <<Config(2), RewardsSim>>,
          <<Config(2), FaultySim>>,
          <<Config(1), PlainSim>>, <<Config(3), PlainSim>>,
          <<DiscreteConfig, DiscreteSim>>, <<Config(2), SignalSim>>,
          <<LoggingConfig, LoggingSim>>, <<ShortConfig, BudgetSim>>,
          <<Config(2), SharedSim>>, <<ChoiceConfig, ChoiceSim>>,
          <<Config(2), InterruptSim>>, <<Config(2), LateSim>> }

\* MultiCarlaEnv.__init__: the fields right after construction
InitSelf ==
  [server_process |-> 0, client |-> 0, world |-> 0,
   num_steps |-> EmptyDict, total_reward |-> EmptyDict,
   prev_measurement |-> EmptyDict, prev_image |-> NoneImage,
   episode_id_dict |-> EmptyDict, scenario |-> NoScenario,
   scenario_map |-> EmptyDict, last_obs |-> NoneV, obs_dict |-> EmptyDict,
   actors |-> EmptyDict, cameras |-> EmptyDict, collisions |-> EmptyDict,
   lane_invasions |-> EmptyDict, done_dict |-> EmptyDict, dones |-> {},
   measurements_file_dict |-> EmptyDict,
   start_pos |-> EmptyDict, end_pos |-> EmptyDict]

----------------------------------------------------------------------------
(* Simulator process and connection.  A machine state m is the instance    *)
(* with the process-wide state it acts on: [self, live, os].               *)

\* the host: the process groups launched and killed, the clock, and the
\* files of the output directory (their lines, by episode id)
InitOs ==
  [launched |-> 0, killed |-> {}, clock |-> 0, files |-> EmptyDict,
   world |-> EmptyDict]

\* what a simulator process holds for the actor of an agent: how many
\* sensors of each kind are attached to it, and how often it was asked to
\* teleport it
NoSensors(server) ==
  [server |-> server, collision |-> 0, lane_invasion |-> 0, camera |-> 0,
   teleports |-> 0]

SensorsOf(world, a, server) ==
  IF Has(world, a) /\ world[a].server = server THEN world[a]
  ELSE NoSensors(server)

\* `CollisionSensor(parent, 0)`, `LaneInvasionSensor(parent, 0)` and
\* `CameraManager(parent, hud).set_sensor(0)`: each has the simulator of the
\* parent spawn a sensor attached to it
Sensed(world, a, server, kind) ==
  Put(world, a, [SensorsOf(world, a, server) EXCEPT ![kind] = @ + 1])

\* the live sensors of agent a's actor in the simulator the environment
\* holds: a killed simulator holds nothing
LiveSensors(o, s, a) ==
  IF s.server_process # 0 /\ s.server_process \notin o.killed
  THEN SensorsOf(o.world, a, s.server_process)
  ELSE NoSensors(0)

\* the outcomes of launching the simulator binary: it runs and answers, it
\* cannot be started, or it runs and never reports a server version
LaunchOutcomes == {"ok", "launch_fail", "unreachable"}

\* a call that has not returned: the caller is inside its loop
Pending(s) == [s |-> s, exc |-> "(no return)", val |-> NoneV]

IsPending(r) == r.exc = "(no return)"

\* the mutant does not register the process group
init_server_unregistered(m, outcome) ==
  IF outcome = "launch_fail"
  THEN Raise(m, "AttributeError")
  ELSE Ok([self |-> [m.self EXCEPT !.server_process = m.os.launched + 1,
                                   !.client = m.os.launched + 1],
           live |-> m.live,
           os   |-> [m.os EXCEPT !.launched = @ + 1]], NoneV)

\* init_server: Popen binds a new process group (numbered by launch order),
\* the group is registered, and the client connects to it.  When neither
\* Popen succeeds server_process stays None and reading its pid raises.
\* `while self.client is None` is left once get_server_version() answers:
\* with a simulator that never answers the call stays in the loop.
init_server(m, outcome) ==
  IF outcome = "launch_fail"
  THEN Raise(m, "AttributeError")
  ELSE LET pid == m.os.launched + 1 IN
       IF outcome = "unreachable"
       THEN Pending([self |-> [m.self EXCEPT !.server_process = pid, !.client = 0],
                     live |-> m.live \cup {pid},
                     os   |-> [m.os EXCEPT !.launched = pid]])
       ELSE Ok([self |-> [m.self EXCEPT !.server_process = pid, !.client = pid],
                live |-> m.live \cup {pid},
                os   |-> [m.os EXCEPT !.launched = pid]], NoneV)

\* the states init_server passes through between its first and its last
\* statement: Popen has started the simulator (369-377), the process object
\* is stored in self.server_process (369), its group is registered and the
\* client is None (383-386), the client object is stored (389-394)
InitServerSites(m) ==
  {[m EXCEPT !.os.launched = @ + 1],
   [m EXCEPT !.os.launched = @ + 1, !.self.server_process = m.os.launched + 1],
   [m EXCEPT !.os.launched = @ + 1, !.self.server_process = m.os.launched + 1,
             !.live = @ \cup {m.os.launched + 1}, !.self.client = 0],
   [m EXCEPT !.os.launched = @ + 1, !.self.server_process = m.os.launched + 1,
             !.live = @ \cup {m.os.launched + 1},
             !.self.client = m.os.launched + 1]}

\* the mutant forgets to drop the group from the registry
clear_server_state_keeps_registry(m) ==
  IF m.self.server_process # 0
  THEN [self |-> [m.self EXCEPT !.client = 0, !.server_process = 0],
        live |-> m.live,
        os   |-> [m.os EXCEPT !.killed = @ \cup {m.self.server_process}]]
  ELSE [m EXCEPT !.self.client = 0]

\* the mutant kills the group but keeps the process object
clear_server_state_keeps_process(m) ==
  IF m.self.server_process # 0
  THEN [self |-> [m.self EXCEPT !.client = 0],
        live |-> m.live \ {m.self.server_process},
        os   |-> [m.os EXCEPT !.killed = @ \cup {m.self.server_process}]]
  ELSE [m EXCEPT !.self.client = 0]

\* clear_server_state: drop the client; kill the process group, remove it
\* from the registry and forget the process
clear_server_state(m) ==
  IF m.self.server_process # 0
  THEN [self |-> [m.self EXCEPT !.client = 0, !.server_process = 0],
        live |-> m.live \ {m.self.server_process},
        os   |-> [m.os EXCEPT !.killed = @ \cup {m.self.server_process}]]
  ELSE [m EXCEPT !.self.client = 0]

\* the states clear_server_state passes through, its last included: the
\* client is dropped (435), the group is killed (441), it is removed from
\* the registry (442), the process is forgotten (444)
ClearSites(m) ==
  {[m EXCEPT !.self.client = 0], clear_server_state(m)}
    \cup (IF m.self.server_process = 0 THEN {}
          ELSE {[m EXCEPT !.self.client = 0,
                          !.os.killed = @ \cup {m.self.server_process}],
                [m EXCEPT !.self.client = 0,
                          !.os.killed = @ \cup {m.self.server_process},
                          !.live = @ \ {m.self.server_process}]})

\* the mutant kills the process group of this environment only
cleanup_own_group(m) ==
  [m EXCEPT !.os.killed = @ \cup (m.live \cap {m.self.server_process})]

\* cleanup: `for pgid in live_carla_processes: os.killpg(pgid, signal.SIGKILL)`;
\* the registry itself is left as it is
cleanup(m) == [m EXCEPT !.os.killed = @ \cup m.live]

\* termination_cleanup: cleanup(), then sys.exit(0), on which the
\* interpreter runs the functions registered with atexit: cleanup() again
termination_cleanup(m) == cleanup(cleanup(m))

----------------------------------------------------------------------------
(* Spawning *)

\* what try_spawn_actor yields on each of the tries of one spawn_new_agent
\* call: no actor, an actor at or below ground, an actor above ground
SpawnPlans ==
  { [i \in 1..RETRIES_ON_ERROR |-> IF i <= k THEN bad ELSE "ok"] :
      k \in {0, 1, RETRIES_ON_ERROR}, bad \in {"None", "low"} }

Vehicle(server, outcome) ==
  IF outcome = "None" THEN NoneActor
  ELSE [st |-> "actor", server |-> server, z |-> IF outcome = "ok" THEN 1 ELSE 0]

\* the for loop of spawn_new_agent from try i on; vehicle is the last result
RECURSIVE SpawnLoop(_, _, _, _)
SpawnLoop(server, plan, i, vehicle) ==
  IF i > RETRIES_ON_ERROR THEN vehicle
  ELSE LET v == Vehicle(server, plan[i]) IN
       IF v.st # "None" /\ v.z > 0 THEN v
       ELSE SpawnLoop(server, plan, i + 1, v)

spawn_new_agent(m, actor_id, plan) == SpawnLoop(m.self.world, plan, 1, NoneActor)

----------------------------------------------------------------------------
(* Observations *)

Image(a, n) == [actor |-> a, frame |-> n]

\* `np.concatenate([prev_image, image])` when the depth is 2
Stacked(prev_image, image) ==
  IF configs.framestack = 2
  THEN <<IF prev_image = NoneImage THEN image ELSE prev_image, image>>
  ELSE <<image>>

\* the value encode_obs returns: the image alone, or the image with the
\* command of the measurement when the actor sends measurements
Encoded(actor_id, stack, py_measurements) ==
  IF ~configs.actors[actor_id].send_measurements
  THEN [type |-> "image", image |-> stack]
  ELSE [type |-> "obs", image |-> stack, command |-> py_measurements.next_command]

\* encode_obs: asserts the stack depth, remembers the image, stacks it on
\* the previous one; an observation with measurements is remembered as the
\* last observation
encode_obs(m, actor_id, image, py_measurements) ==
  IF configs.framestack \notin {1, 2}
  THEN Raise(m, "AssertionError")
  ELSE IF ~configs.actors[actor_id].send_measurements
  THEN Ok([m EXCEPT !.self.prev_image = image],
          Encoded(actor_id, Stacked(m.self.prev_image, image), py_measurements))
  ELSE Ok([m EXCEPT !.self.prev_image = image,
                    !.self.last_obs =
                       Encoded(actor_id, Stacked(m.self.prev_image, image),
                               py_measurements)],
          Encoded(actor_id, Stacked(m.self.prev_image, image), py_measurements))

\* a measurement that no step has added a control to
NoControl == [throttle |-> 0, brake |-> 0, steer |-> 0]

\* _read_observation: the measurement snapshot of an actor.  Of a snapshot
\* the model keeps the fields that identify it, the planner's command and
\* the collision counter (which the reading decides), and those _step adds:
\* control, total_reward and done (stepped tells whether they are there).
read_observation(m, actor_id, reading) ==
  [episode_id |-> m.self.episode_id_dict[actor_id],
   step |-> m.self.num_steps[actor_id],
   next_command |-> IF reading = "goal" THEN "REACH_GOAL" ELSE "LANE_FOLLOW",
   collision |-> IF reading = "collided" THEN 1 ELSE 0,
   stepped |-> FALSE, control |-> NoControl, total_reward |-> 0, done |-> FALSE]

----------------------------------------------------------------------------
(* _reset.  Its input `in` says where the simulator fails, if anywhere      *)
(* (fault = [stage, actor]), what each spawn try yields (plans) and which   *)
(* scenario is drawn for each actor (scen).                                *)

\* the calls of _reset that go to the simulator: the world, its weather,
\* the teleport, the spawn, the three sensor constructors in the order of
\* the code ("sensors" is the first, CollisionSensor), and the observation.
\* A simulator failure is injected at one of them.  The other stages that
\* Faults is asked about below name a statement of _reset by what it has
\* just written; no failure is injected there: they are where a signal
\* finds the call (SignalInReset), its handler ending in SystemExit.
ResetStages == {"get_world", "get_weather", "set_transform", "spawn",
                "sensors", "sensors@lane_invasion", "sensors@camera",
                "read_observation", "preprocess_image"}

NoFault == [stage |-> "none", actor |-> ""]

Faults(in, stage, a) == in.fault.stage = stage /\ in.fault.actor = a

\* the mutant leaves an actor without a done flag unmarked
MarkDone_never(done_dict, a) == done_dict

\* `if self.done_dict.get(actor_id, None) is None: self.done_dict[actor_id] = True`
MarkDone(done_dict, a) ==
  IF ~Has(done_dict, a) THEN Put(done_dict, a, TRUE) ELSE done_dict

\* the mutant takes every actor that has a done flag for done
IsDone_any_flag(done_dict, a) == Has(done_dict, a)

\* `self.done_dict.get(actor_id, False) is True`
IsDone(done_dict, a) == Has(done_dict, a) /\ done_dict[a] = TRUE

\* the mutant places every actor at the positions of the scenario drawn
NewEpisode_moves_all(m, a, in) ==
  [m EXCEPT !.os.clock = @ + 1,
            !.self.measurements_file_dict = Put(@, a, NoneV),
            !.self.episode_id_dict = Put(@, a, m.os.clock + 1),
            !.self.scenario_map = Put(@, a, in.scen[a]),
            !.self.scenario = in.scen[a],
            !.self.start_pos =
               [b \in Agents |-> pos_coor_map[in.scen[a].start_pos_id]],
            !.self.end_pos =
               [b \in Agents |-> pos_coor_map[in.scen[a].end_pos_id]]]

\* no log file yet, a new episode id (the time of day) and the scenario
\* drawn, which also becomes the environment's current scenario and gives
\* the actor's start and end position
NewEpisode(m, a, in) ==
  [m EXCEPT !.os.clock = @ + 1,
            !.self.measurements_file_dict = Put(@, a, NoneV),
            !.self.episode_id_dict = Put(@, a, m.os.clock + 1),
            !.self.scenario_map = Put(@, a, in.scen[a]),
            !.self.scenario = in.scen[a],
            !.self.start_pos = Put(@, a, pos_coor_map[in.scen[a].start_pos_id]),
            !.self.end_pos = Put(@, a, pos_coor_map[in.scen[a].end_pos_id])]

\* the mutant gives a teleported actor a new episode
SoftReset_new_episode(m, a, in) ==
  IF m.self.actors[a].st = "None" THEN Raise(m, "AttributeError")
  ELSE IF Stale(m.self, m.self.actors[a]) THEN Raise(m, "RuntimeError")
  ELSE IF Faults(in, "set_transform", a) THEN Raise(m, "RuntimeError")
  ELSE Ok(NewEpisode([m EXCEPT !.os.world =
                        Put(@, a, [SensorsOf(@, a, m.self.actors[a].server)
                                     EXCEPT !.teleports = @ + 1])], a, in), NoneV)

\* soft reset: `self.actors[actor_id].set_transform(...)` has the simulator
\* teleport the registered handle back to the start pose; nothing the
\* environment holds changes
SoftReset(m, a, in) ==
  IF m.self.actors[a].st = "None" THEN Raise(m, "AttributeError")
  ELSE IF Stale(m.self, m.self.actors[a]) THEN Raise(m, "RuntimeError")
  ELSE IF Faults(in, "set_transform", a) THEN Raise(m, "RuntimeError")
  ELSE Ok([m EXCEPT !.os.world =
             Put(@, a, [SensorsOf(@, a, m.self.actors[a].server)
                          EXCEPT !.teleports = @ + 1])], NoneV)

\* `self.actors[actor_id] = ...; if self.actors[actor_id] is None: raise`
Register(m, a, vehicle) ==
  IF vehicle.st = "None"
  THEN Raise([m EXCEPT !.self.actors = Put(@, a, vehicle)], "RuntimeError")
  ELSE Ok([m EXCEPT !.self.actors = Put(@, a, vehicle)], NoneV)

\* `self.actors[actor_id] = self.spawn_new_agent(actor_id)`
Spawn(m, a, in) ==
  IF Faults(in, "spawn", a) THEN Raise(m, "RuntimeError")
  ELSE Register(m, a, spawn_new_agent(m, a, in.plans[a]))

\* reset from scratch: new episode id, scenario, and a spawned actor; the
\* fields of the new episode are written one after the other (573-591)
HardReset(m, a, in) ==
  IF in.fault.actor = a /\ in.fault.stage = "measurements_file_dict"
  THEN Raise([m EXCEPT !.self.measurements_file_dict =
                          NewEpisode(m, a, in).self.measurements_file_dict],
             "SystemExit")
  ELSE IF in.fault.actor = a /\ in.fault.stage = "episode_id_dict"
  THEN Raise([NewEpisode(m, a, in) EXCEPT
                !.self.scenario_map = m.self.scenario_map,
                !.self.scenario = m.self.scenario,
                !.self.start_pos = m.self.start_pos,
                !.self.end_pos = m.self.end_pos], "SystemExit")
  ELSE IF in.fault.actor = a /\ in.fault.stage = "scenario_map"
  THEN Raise([NewEpisode(m, a, in) EXCEPT
                !.self.scenario = m.self.scenario,
                !.self.start_pos = m.self.start_pos,
                !.self.end_pos = m.self.end_pos], "SystemExit")
  ELSE IF in.fault.actor = a /\ in.fault.stage = "scenario"
  THEN Raise([NewEpisode(m, a, in) EXCEPT
                !.self.start_pos = m.self.start_pos,
                !.self.end_pos = m.self.end_pos], "SystemExit")
  ELSE IF in.fault.actor = a /\ in.fault.stage = "start_pos"
  THEN Raise([NewEpisode(m, a, in) EXCEPT !.self.end_pos = m.self.end_pos],
             "SystemExit")
  ELSE Spawn(NewEpisode(m, a, in), a, in)

\* `camera_manager = CameraManager(...); camera_manager.set_sensor(0, ...);
\* self.cameras.update({actor_id: camera_manager})`
AttachCamera(m, a, in) ==
  IF Faults(in, "sensors@camera", a) THEN Raise(m, "RuntimeError")
  ELSE IF Faults(in, "CameraManager", a)
  THEN Raise([m EXCEPT !.os.world =
                Sensed(@, a, m.self.actors[a].server, "camera")], "SystemExit")
  ELSE Ok([m EXCEPT !.self.cameras = Put(@, a, [parent |-> m.self.actors[a]]),
                    !.os.world = Sensed(@, a, m.self.actors[a].server, "camera")],
          NoneV)

\* `lane_sensor = LaneInvasionSensor(...); self.lane_invasions.update(...)`,
\* then the camera
AttachLaneSensor(m, a, in) ==
  IF Faults(in, "sensors@lane_invasion", a) THEN Raise(m, "RuntimeError")
  ELSE IF Faults(in, "LaneInvasionSensor", a)
  THEN Raise([m EXCEPT !.os.world =
                Sensed(@, a, m.self.actors[a].server, "lane_invasion")],
             "SystemExit")
  ELSE AttachCamera(
         [m EXCEPT !.self.lane_invasions = Put(@, a, [parent |-> m.self.actors[a]]),
                   !.os.world = Sensed(@, a, m.self.actors[a].server,
                                       "lane_invasion")], a, in)

\* collision, lane-invasion and camera sensors attached to the actor's
\* handle, one after the other, each stored before the next is made
AttachSensors(m, a, in) ==
  IF Stale(m.self, m.self.actors[a]) THEN Raise(m, "RuntimeError")
  ELSE IF Faults(in, "sensors", a) THEN Raise(m, "RuntimeError")
  ELSE IF Faults(in, "CollisionSensor", a)
  THEN Raise([m EXCEPT !.os.world =
                Sensed(@, a, m.self.actors[a].server, "collision")], "SystemExit")
  ELSE AttachLaneSensor(
         [m EXCEPT !.self.collisions = Put(@, a, [parent |-> m.self.actors[a]]),
                   !.os.world = Sensed(@, a, m.self.actors[a].server,
                                       "collision")], a, in)

\* the first loop of _reset, from the i-th configured actor on: ResetActors
\* marks the actor, ResetActor resets it if it is done, WithSensors and
\* NextActor go on after the reset and after the sensors unless they raised
RECURSIVE ResetActors(_, _, _)
RECURSIVE ResetActor(_, _, _)
RECURSIVE WithSensors(_, _, _)
RECURSIVE NextActor(_, _, _)
ResetActors(m, i, in) ==
  IF i > Len(AgentOrder) THEN Ok(m, NoneV)
  ELSE ResetActor([m EXCEPT !.self.done_dict = MarkDone(@, AgentOrder[i])], i, in)

ResetActor(m, i, in) ==
  IF Faults(in, "done_dict", AgentOrder[i]) THEN Raise(m, "SystemExit")
  ELSE IF ~IsDone(m.self.done_dict, AgentOrder[i]) THEN ResetActors(m, i + 1, in)
  ELSE WithSensors(IF Has(m.self.actors, AgentOrder[i])
                   THEN SoftReset(m, AgentOrder[i], in)
                   ELSE HardReset(m, AgentOrder[i], in), i, in)

WithSensors(r, i, in) ==
  IF r.exc # "" THEN r ELSE NextActor(AttachSensors(r.s, AgentOrder[i], in), i, in)

NextActor(r, i, in) ==
  IF r.exc # "" THEN r
  ELSE IF Faults(in, "cameras", AgentOrder[i]) THEN Raise(r.s, "SystemExit")
  ELSE ResetActors(r.s, i + 1, in)

\* `self.total_reward[actor_id] = None; self.num_steps[actor_id] = 0`
InitialValues(m, a) ==
  [m EXCEPT !.self.total_reward = Put(@, a, NoneV),
            !.self.num_steps = Put(@, a, 0)]

\* `self.obs_dict[actor_id] = obs`
StoreObs(r, a) ==
  IF r.exc # "" THEN r
  ELSE Ok([r.s EXCEPT !.self.obs_dict = Put(@, a, r.val)], NoneV)

\* the image of the camera is processed and encoded with the measurement
EncodeFirst(m, a, in) ==
  IF Faults(in, "preprocess_image", a) THEN Raise(m, "RuntimeError")
  ELSE IF Faults(in, "prev_image", a) /\ configs.framestack \in {1, 2}
  THEN Raise([m EXCEPT !.self.prev_image = Image(a, 0)], "SystemExit")
  ELSE IF Faults(in, "encode_obs", a)
  THEN Raise(encode_obs(m, a, Image(a, 0), m.self.prev_measurement[a]).s,
             "SystemExit")
  ELSE StoreObs(encode_obs(m, a, Image(a, 0), m.self.prev_measurement[a]), a)

\* `py_mt = self._read_observation(actor_id); self.prev_measurement[actor_id] = py_mt`
ReadFirst(m, a, in) ==
  IF Faults(in, "read_observation", a) THEN Raise(m, "RuntimeError")
  ELSE EncodeFirst([m EXCEPT !.self.prev_measurement =
                                Put(@, a, read_observation(m, a, "clear"))], a, in)

\* the body of the second loop of _reset: initial values, measurement and
\* observation of a reset actor
InitialObservation(m, a, in) ==
  IF Faults(in, "total_reward", a)
  THEN Raise([m EXCEPT !.self.total_reward = InitialValues(m, a).self.total_reward],
             "SystemExit")
  ELSE ReadFirst(InitialValues(m, a), a, in)

\* the second loop of _reset: the cameras in insertion order, which is the
\* configuration order
RECURSIVE ResetObservations(_, _, _)
RECURSIVE NextObservation(_, _, _)
ResetObservations(m, i, in) ==
  IF i > Len(AgentOrder) THEN Ok(m, NoneV)
  ELSE IF ~(Has(m.self.cameras, AgentOrder[i]) /\ IsDone(m.self.done_dict, AgentOrder[i]))
  THEN ResetObservations(m, i + 1, in)
  ELSE NextObservation(InitialObservation(m, AgentOrder[i], in), i, in)

NextObservation(r, i, in) ==
  IF r.exc # "" THEN r
  ELSE IF Faults(in, "obs_dict", AgentOrder[i]) THEN Raise(r.s, "SystemExit")
  ELSE ResetObservations(r.s, i + 1, in)

\* `return self.obs_dict`
ReturnObs(r) ==
  IF r.exc # "" THEN r ELSE Ok(r.s, Dict(r.s.self.obs_dict))

ObserveActors(r, in) ==
  IF r.exc # "" THEN r ELSE ReturnObs(ResetObservations(r.s, 1, in))

\* _reset: the world of the client, its weather, the two loops, the
\* observations
reset_inner(m, in) ==
  IF m.self.client = 0 THEN Raise(m, "AttributeError")
  ELSE IF in.fault.stage = "get_world" THEN Raise(m, "RuntimeError")
  ELSE IF in.fault.stage = "get_weather"
  THEN Raise([m EXCEPT !.self.world = m.self.client], "RuntimeError")
  ELSE ObserveActors(ResetActors([m EXCEPT !.self.world = m.self.client], 1, in), in)

ThenReset(r, in) == IF r.exc # "" THEN r ELSE reset_inner(r.s, in)

\* one pass of the body of reset()'s for loop:
\* `if not self.server_process: self.init_server()` and `self._reset()`
ResetTry(m, launch, in) ==
  ThenReset(IF m.self.server_process = 0 THEN init_server(m, launch)
            ELSE Ok(m, NoneV), in)

----------------------------------------------------------------------------
(* step.  The argument is [is_dict, order, in]: whether it is a dict, its   *)
(* keys in iteration order, and per key the action given and               *)
(* what the simulator yields for that actor: the reward, the raw readings  *)
(* (command, collision counter), and whether a call fails before the       *)
(* reward is computed ("early") or after the bookkeeping, while the image  *)
(* is fetched or processed ("late": `self.cameras[actor_id].image`,        *)
(* `preprocess_image`, which leave the same state).  The other values of   *)
(* fault that the operators below ask about name a statement of _step or   *)
(* of step()'s loop by what it has just written; nothing fails there: they *)
(* are where a signal finds the call (SignalInStep), its handler ending in *)
(* SystemExit.                                                             *)

StepFaults == {"none", "early", "late"}

\* the table of discrete actions: [throttle or brake, steer], in hundredths
DISCRETE_ACTIONS ==
  [i \in 0..8 |->
     CASE i = 0 -> <<0, 0>>       \* coast
       [] i = 1 -> <<0, -50>>     \* turn left
       [] i = 2 -> <<0, 50>>      \* turn right
       [] i = 3 -> <<100, 0>>     \* forward
       [] i = 4 -> <<-50, 0>>     \* brake
       [] i = 5 -> <<50, -5>>     \* forward left
       [] i = 6 -> <<50, 5>>      \* forward right
       [] i = 7 -> <<-50, -50>>   \* brake left
       [] i = 8 -> <<-50, 50>>]   \* brake right

\* np.clip and np.abs on one number
clip(x, lo, hi) == IF x < lo THEN lo ELSE IF x > hi THEN hi ELSE x

abs(x) == IF x < 0 THEN -x ELSE x

\* the mutant passes the first component on as the throttle, unclamped
Control_unclamped(action) ==
  [throttle |-> action[1],
   brake    |-> abs(clip(action[1], -100, 0)),
   steer    |-> clip(action[2], -100, 100)]

\* the control of an action when the logits are not squashed (hundredths)
Control(action) ==
  [throttle |-> clip(action[1], 0, 60),
   brake    |-> abs(clip(action[1], -100, 0)),
   steer    |-> clip(action[2], -100, 100)]

\* the mutant knows no reward floor
collided_done_no_floor(collision, total_reward) == collision > 0

\* collided_done: some collision counter is positive, or the running total
\* is below the floor
collided_done(collision, total_reward) == collision > 0 \/ total_reward < -100

\* `if total_reward is None: total_reward = reward; else: total_reward += reward`
AddReward(total, reward) ==
  IF total.type = "NoneType" THEN Float(reward) ELSE Float(total.f + reward)

\* the reward is added to the actor's running total
Rewarded(m, a, x) ==
  [m EXCEPT !.self.total_reward = Put(@, a, AddReward(@[a], x.reward))]

\* the measurement of the step, with the control applied and the running
\* total
Measurement(m, a, x) ==
  [read_observation(m, a, x.reading) EXCEPT
     !.stepped = TRUE, !.control = x.control,
     !.total_reward = m.self.total_reward[a].f]

\* `self.num_steps[actor_id] > self.scenario["max_steps"]`
BudgetExceeded(num_steps, scenario) == num_steps > scenario.max_steps

\* the done flag of the step
Done(m, a, py) ==
  \/ BudgetExceeded(m.self.num_steps[a], m.self.scenario)
  \/ py.next_command = "REACH_GOAL"
  \/ (configs.actors[a].early_terminate_on_collision
        /\ collided_done(py.collision, py.total_reward))

\* `py_measurements["done"] = done`
Judged(m, a, py) == [py EXCEPT !.done = Done(m, a, py)]

\* `self.prev_measurement[actor_id] = py_measurements; self.num_steps[actor_id] += 1`
Booked(m, a, py) ==
  [m EXCEPT !.self.prev_measurement = Put(@, a, py),
            !.self.num_steps = Put(@, a, @[a] + 1)]

\* the directory the logs are written to: the CARLA_OUT variable of the
\* environment or its default
CARLA_OUT_PATH == "~/carla_out"

\* an open file, named by the episode id in its path
File(episode_id) == [type |-> "file", name |-> episode_id]

\* `open(path, "w")` where no file is held (`if not
\* self.measurements_file_dict[actor_id]`): the file is created, or emptied
\* if it exists
Open(m, a) ==
  IF m.self.measurements_file_dict[a].type # "NoneType" THEN m
  ELSE [m EXCEPT !.os.files = Put(@, m.self.episode_id_dict[a], <<>>)]

\* `if not self.measurements_file_dict[actor_id]:
\*      self.measurements_file_dict[actor_id] = open(...)`
Opened(m, a) ==
  IF m.self.measurements_file_dict[a].type # "NoneType" THEN m
  ELSE [Open(m, a) EXCEPT !.self.measurements_file_dict =
                             Put(@, a, File(m.self.episode_id_dict[a]))]

\* the measurement is written as one line
Written(m, a, py) ==
  [m EXCEPT !.os.files[m.self.measurements_file_dict[a].name] = Append(@, py)]

\* `if done: close(); self.measurements_file_dict[actor_id] = None`
Closed(m, a, py) ==
  IF py.done THEN [m EXCEPT !.self.measurements_file_dict = Put(@, a, NoneV)]
  ELSE m

\* `if config["log_measurements"] and CARLA_OUT_PATH:` the measurement log
Logged(m, a, py) ==
  IF configs.actors[a].log_measurements /\ CARLA_OUT_PATH # ""
  THEN Closed(Written(Opened(m, a), a, py), a, py)
  ELSE m

\* `return (self.encode_obs(...), reward, done, py_measurements)`
Observed(r, x, py) ==
  IF r.exc # "" THEN r
  ELSE Ok(r.s, [obs |-> r.val, reward |-> x.reward, done |-> py.done, info |-> py])

\* the camera image is processed and encoded
Observe(m, a, x, py) ==
  IF x.fault = "late" THEN Raise(m, "RuntimeError")
  ELSE IF x.fault = "prev_image" /\ configs.framestack \in {1, 2}
  THEN Raise([m EXCEPT !.self.prev_image = Image(a, m.self.num_steps[a])],
             "SystemExit")
  ELSE IF x.fault = "encode_obs"
  THEN Raise(encode_obs(m, a, Image(a, m.self.num_steps[a]), py).s, "SystemExit")
  ELSE Observed(encode_obs(m, a, Image(a, m.self.num_steps[a]), py), x, py)

Bookkeep(m, a, x, py) ==
  IF x.fault = "prev_measurement"
  THEN Raise([m EXCEPT !.self.prev_measurement = Put(@, a, py)], "SystemExit")
  ELSE IF x.fault = "num_steps" THEN Raise(Booked(m, a, py), "SystemExit")
  ELSE IF /\ x.fault \in {"open", "measurements_file_dict", "write"}
          /\ configs.actors[a].log_measurements
          /\ CARLA_OUT_PATH # ""
  THEN Raise(IF x.fault = "open" THEN Open(Booked(m, a, py), a)
             ELSE IF x.fault = "measurements_file_dict"
             THEN Opened(Booked(m, a, py), a)
             ELSE Written(Opened(Booked(m, a, py), a), a, py), "SystemExit")
  ELSE Observe(Logged(Booked(m, a, py), a, py), a, x, py)

\* `if self.discrete_actions: action = DISCRETE_ACTIONS[int(action)]`, and
\* `len(action)` of what results: the decoded action or the exception
Decode(action) ==
  IF configs.discrete_actions
  THEN IF action.type # "int" THEN [exc |-> "TypeError", val |-> <<>>]
       ELSE IF action.i \notin DOMAIN DISCRETE_ACTIONS
       THEN [exc |-> "KeyError", val |-> <<>>]
       ELSE [exc |-> "", val |-> DISCRETE_ACTIONS[action.i]]
  ELSE IF action.type # "list" THEN [exc |-> "TypeError", val |-> <<>>]
       ELSE [exc |-> "", val |-> action.l]

\* the input of the step with the control computed from the action
WithControl(x, control) ==
  [action |-> x.action, reward |-> x.reward, reading |-> x.reading,
   fault |-> x.fault, control |-> control]

\* _step once the action is decoded: the assert on its shape, the control
\* applied through the actor's handle, raw readings, reward, and the rest:
\* measurement, done flag, bookkeeping, log, observation
Act(m, actor_id, x, decoded) ==
  IF decoded.exc # "" THEN Raise(m, decoded.exc)
  ELSE IF Len(decoded.val) # 2 THEN Raise(m, "AssertionError")
  ELSE IF actor_id \notin Agents THEN Raise(m, "KeyError")
  ELSE IF m.self.actors[actor_id].st = "None" THEN Raise(m, "AttributeError")
  ELSE IF Stale(m.self, m.self.actors[actor_id]) THEN Raise(m, "RuntimeError")
  ELSE IF x.fault = "early" THEN Raise(m, "RuntimeError")
  ELSE IF ~Has(m.self.num_steps, actor_id) THEN Raise(m, "KeyError")
  ELSE IF x.fault = "total_reward"
  THEN Raise(Rewarded(m, actor_id, x), "SystemExit")
  ELSE Bookkeep(Rewarded(m, actor_id, x), actor_id,
                WithControl(x, Control(decoded.val)),
                Judged(Rewarded(m, actor_id, x), actor_id,
                       Measurement(Rewarded(m, actor_id, x), actor_id,
                                   WithControl(x, Control(decoded.val)))))

\* _step
step_inner(m, actor_id, x) == Act(m, actor_id, x, Decode(x.action))

\* the mutant counts the done flags that are set instead of the done set
AllDone_any(dones, actors) == dones # {}

\* `len(self.dones) == len(self.actors)`
AllDone(dones, actors) == Cardinality(dones) = Cardinality(DOMAIN actors)

\* the for loop of step() from the i-th key on; acc holds obs_dict,
\* reward_dict and info_dict.  Absorb takes the result of _step for that key.
RECURSIVE StepLoop(_, _, _, _)
RECURSIVE Absorb(_, _, _, _)
StepLoop(m, arg, i, acc) ==
  IF i > Len(arg.order) THEN Ok(m, acc)
  ELSE Absorb(step_inner(m, arg.order[i], arg.in[arg.order[i]]), arg, i, acc)

Absorb(r, arg, i, acc) ==
  IF r.exc # "" THEN r
  ELSE IF arg.in[arg.order[i]].fault = "done_dict"
  THEN Raise([r.s EXCEPT !.self.done_dict = Put(@, arg.order[i], r.val.done)],
             "SystemExit")
  ELSE IF arg.in[arg.order[i]].fault = "dones"
  THEN Raise([r.s EXCEPT
                !.self.done_dict = Put(@, arg.order[i], r.val.done),
                !.self.dones = IF r.val.done THEN @ \cup {arg.order[i]} ELSE @],
             "SystemExit")
  ELSE StepLoop([r.s EXCEPT
                   !.self.done_dict = Put(@, arg.order[i], r.val.done),
                   !.self.dones = IF r.val.done THEN @ \cup {arg.order[i]} ELSE @],
                arg, i + 1,
                [obs    |-> Put(acc.obs, arg.order[i], r.val.obs),
                 reward |-> Put(acc.reward, arg.order[i], r.val.reward),
                 info   |-> Put(acc.info, arg.order[i], r.val.info)])

\* `self.done_dict["__all__"] = len(self.dones) == len(self.actors)`
Aggregate(m) ==
  [m EXCEPT !.self.done_dict = Put(@, "__all__", AllDone(m.self.dones, m.self.actors))]

\* `return obs_dict, reward_dict, self.done_dict, info_dict`
Complete(m, acc) ==
  Ok(m, [type |-> "tuple", obs |-> Dict(acc.obs), reward |-> Dict(acc.reward),
         done |-> Dict(m.self.done_dict), info |-> Dict(acc.info)])

\* the end of the try block of step(), and its handler
Handle(r) ==
  IF r.exc = "" THEN Complete(Aggregate(r.s), r.val)
  ELSE Ok(clear_server_state(r.s),
          [type |-> "tuple", obs |-> r.s.self.last_obs, reward |-> Float(0),
           done |-> [type |-> "bool", b |-> TRUE], info |-> Dict(EmptyDict)])

\* the try block of step()
StepTry(m, arg) ==
  StepLoop(m, arg, 1, [obs |-> EmptyDict, reward |-> EmptyDict, info |-> EmptyDict])

\* the try block of step() and its handler
StepBody(m, arg) == Handle(StepTry(m, arg))

\* the mutant accepts the call as long as a client object exists
NotReady_client_only(s) == s.client = 0 /\ s.server_process # 0

\* `(not self.server_process) or (not self.client)`
NotReady(s) == s.server_process = 0 \/ s.client = 0

\* the mutant rejects only a dict none of whose keys is a registered actor
UnknownActors_all(order, actors) ==
  order # <<>> /\ \A i \in 1..Len(order) : order[i] \notin DOMAIN actors

\* `not set(action_dict).issubset(set(self.actors))`
UnknownActors(order, actors) ==
  \E i \in 1..Len(order) : order[i] \notin DOMAIN actors

\* step()
step(m, arg) ==
  IF NotReady(m.self) THEN Raise(m, "RuntimeError")
  ELSE IF DOMAIN m.self.actors = {} THEN Raise(m, "AssertionError")
  ELSE IF ~arg.is_dict THEN Raise(m, "ValueError")
  ELSE IF UnknownActors(arg.order, m.self.actors) THEN Raise(m, "ValueError")
  ELSE StepBody(m, arg)

----------------------------------------------------------------------------
(* Inputs of the calls *)

\* the actions a caller passes: the two continuous ones, and the indices
\* of the table and the first index beyond it
Actions == {GoStraight, Misshapen} \cup {Index(i) : i \in 0..9}

\* the actions _step refuses
BadActions == {Misshapen, Index(9)}

StepIn == [action : Actions, reward : Rewards, reading : Readings,
           fault : StepFaults]

DefaultIn ==
  [action |-> GoStraight, reward |-> 1, reading |-> "clear", fault |-> "none"]

InOrder(order, a) == \E i \in 1..Len(order) : order[i] = a

\* nothing is read of the simulator when the action is refused; neither
\* the readings nor the reward are read when the call fails before
\* _read_observation; a call that fails late has read both, and they stay
\* in the state; the indices are explored with the default yields of the
\* simulator
AgentIns ==
  {x \in StepIn :
     /\ x.action # GoStraight => [x EXCEPT !.action = GoStraight] = DefaultIn
     /\ x.fault = "early" => x.reward = DefaultIn.reward
     /\ x.fault = "early" => x.reading = DefaultIn.reading}

\* x makes _step raise
Fails(x) == x.action \in BadActions \/ x.fault # "none"

\* inputs that are never read (keys not passed, keys after the failing
\* one, the keys of a dict that names an unknown actor) are fixed
ReadInputs(order, in) ==
  /\ \A a \in Ids : (~InOrder(order, a) \/ InOrder(order, Ghost)) => in[a] = DefaultIn
  /\ \A i \in 1..Len(order) : \A j \in 1..Len(order) :
        (j < i /\ Fails(in[order[j]])) => in[order[i]] = DefaultIn

InputsFor(order, x, y) ==
  [a \in Ids |-> IF Len(order) >= 1 /\ a = order[1] THEN x
                 ELSE IF Len(order) >= 2 /\ a = order[2] THEN y
                 ELSE DefaultIn]

StepArgs ==
  { [is_dict |-> TRUE, order |-> o, in |-> InputsFor(o, x, y)] :
      o \in Orders, x \in AgentIns, y \in AgentIns }

\* the arguments step() is called with: the dicts, and one non-dict
StepCalls ==
  { c \in StepArgs : ReadInputs(c.order, c.in) }
    \cup {[is_dict |-> FALSE, order |-> <<>>, in |-> [a \in Ids |-> DefaultIn]]}

OkPlan == [i \in 1..RETRIES_ON_ERROR |-> "ok"]

ResetFaults ==
  {NoFault} \cup [stage : {"get_world", "get_weather"}, actor : {""}]
    \cup [stage : ResetStages \ {"get_world", "get_weather"}, actor : Agents]

AllScenarios == UNION {configs.actors[b].scenarios : b \in Agents}

\* the inputs of one reset attempt in state s: a spawn plan only for the
\* actors that are not registered, a scenario out of each actor's table
ResetIns(s) ==
  { [fault |-> f, plans |-> p, scen |-> sc] :
      f \in ResetFaults,
      p \in {q \in [Agents -> SpawnPlans] :
               \A a \in Agents : Has(s.actors, a) => q[a] = OkPlan},
      sc \in {q \in [Agents -> AllScenarios] :
               \A a \in Agents : q[a] \in configs.actors[a].scenarios} }

\* the number of simulator failures an input injects
ResetFaultCount(launch, in) ==
  (IF launch = "ok" THEN 0 ELSE 1) + (IF in.fault = NoFault THEN 0 ELSE 1)
    + Cardinality({a \in Agents : in.plans[a] # OkPlan})

StepFaultCount(arg) == Cardinality({a \in Ids : arg.in[a].fault # "none"})

----------------------------------------------------------------------------
(* The calls *)

Exc(name, attempt) == [type |-> "exception", name |-> name, attempt |-> attempt]

\* the outcome of a call: returned or raised, the exception raised, the
\* attempt of reset() that produced it, the argument of step() (whether it
\* is a dict, its keys and its values), and the value returned
Ret(op, kind, exc, attempt, arg, val) ==
  [op |-> op, kind |-> kind, exc |-> exc, attempt |-> attempt,
   arg |-> arg, val |-> val]

NoArg == [is_dict |-> FALSE, order |-> <<>>, actions |-> <<>>]

\* the argument of a step() call: its keys and its values, in order
Passed(arg) ==
  [is_dict |-> arg.is_dict, order |-> arg.order,
   actions |-> [i \in 1..Len(arg.order) |-> arg.in[arg.order[i]].action]]

Machine == [self |-> self, live |-> live_carla_processes, os |-> os]

Becomes(m) ==
  /\ self' = m.self
  /\ live_carla_processes' = m.live
  /\ os' = m.os

\* an actor reset by _reset has no running total until its next step
WasReset(s, a) == Has(s.total_reward, a) /\ s.total_reward[a].type = "NoneType"

InitRun(runs) ==
  /\ \E run \in runs : configs = run[1] /\ sim = run[2]
  /\ self = InitSelf
  /\ live_carla_processes = {}
  /\ os = InitOs
  /\ pc = "idle"
  /\ retry = 0
  /\ error = NoneV
  /\ ret = [op |-> "none", kind |-> "none", exc |-> NoneV, attempt |-> 0,
            arg |-> NoArg, val |-> NoneV]
  /\ hist = [returned |-> [a \in Agents |-> 0], faults |-> 0, at |-> <<"", "">>]
  /\ others = EmptyDict

Init == InitRun(Runs)

\* the mutant keeps the first exception
RecordError_first(err, e) == IF err.type = "NoneType" THEN e ELSE err

\* `error = e`
RecordError(err, e) == e

NoReturn == Ret("none", "none", NoneV, 0, NoArg, NoneV)

\* the history once _reset has brought the environment to state s, after
\* so many failures
ResetHistory(s, faults) ==
  [hist EXCEPT !.faults = @ + faults,
               !.returned = [a \in Agents |->
                               IF WasReset(s.self, a) THEN 0 ELSE @[a]]]

\* the end of the n-th iteration (from 0) of reset()'s loop, r being the
\* result of its try block and err the value of `error`: the observations
\* are returned, or the server state is cleared and the error remembered;
\* or the iteration does not end, the call being in init_server's loop
IterationEnds(n, err, faults, r) ==
  /\ Becomes(IF r.exc = "" \/ IsPending(r) THEN r.s ELSE clear_server_state(r.s))
  /\ hist' = ResetHistory(r.s, faults)
  /\ IF r.exc = ""
     THEN /\ pc' = "returned"
          /\ ret' = Ret("reset", "return", NoneV, n + 1, NoArg, r.val)
          /\ retry' = n
          /\ error' = err
     ELSE IF IsPending(r)
     THEN /\ pc' = "connecting"
          /\ ret' = NoReturn
          /\ retry' = n
          /\ error' = err
     ELSE /\ pc' = "reset"
          /\ error' = RecordError(err, Exc(r.exc, n + 1))
          /\ retry' = n + 1
          /\ ret' = NoReturn

\* one iteration of reset()'s loop: launch if there is no process, _reset
Iteration(n, err) ==
  \E launch \in (IF self.server_process = 0 THEN LaunchOutcomes ELSE {"ok"}) :
  \E in \in ResetIns(self) :
    /\ hist.faults + ResetFaultCount(launch, in) <= sim.max_faults
    /\ IterationEnds(n, err, ResetFaultCount(launch, in),
                     ResetTry(Machine, launch, in))

\* the process groups other environment instances have launched
OtherGroups == DOMAIN others

\* reset() is called: `error = None` and the first iteration of the loop
ResetCall ==
  /\ pc = "idle"
  /\ os.launched - Cardinality(OtherGroups) + RETRIES_ON_ERROR <= MaxLaunches
  /\ \A a \in Agents : LiveSensors(os, self, a).camera < MaxSensors
  /\ Iteration(0, NoneV)
  /\ UNCHANGED <<configs, sim, others>>

\* a further iteration of reset()'s loop
ResetRetry ==
  /\ pc = "reset"
  /\ retry < RETRIES_ON_ERROR
  /\ Iteration(retry, error)
  /\ UNCHANGED <<configs, sim, others>>

\* the loop of reset() is over: `raise error`
ResetRaise ==
  /\ pc = "reset"
  /\ retry >= RETRIES_ON_ERROR
  /\ pc' = "returned"
  /\ ret' = Ret("reset", "raise", error, retry, NoArg, NoneV)
  /\ UNCHANGED <<configs, sim, others, self, live_carla_processes, os, retry, error, hist>>

\* one more iteration of init_server's `while self.client is None` with a
\* simulator that never reports a version: the client object is stored,
\* get_server_version() raises RuntimeError after the timeout of one
\* second, `self.client = None`.  Nothing but a signal comes in between
\* (Signal)
Connect ==
  /\ pc = "connecting"
  /\ self' = [self EXCEPT !.client = 0]
  /\ UNCHANGED <<configs, sim, others, live_carla_processes, os, pc, retry,
                 error, ret, hist>>

\* step() returned the tuple of its exception handler
Degraded(r) == r.op = "step" /\ r.kind = "return" /\ r.val.reward.type = "float"

\* step() returned the tuple of its try block
Completed(r) == r.op = "step" /\ r.kind = "return" /\ r.val.reward.type = "dict"

\* the rewards step() returned are added to the history
Returned(returned, arg, r) ==
  [a \in Agents |->
     IF r.exc = "" /\ r.val.reward.type = "dict" /\ InOrder(arg.order, a)
     THEN returned[a] + r.val.reward.d[a] ELSE returned[a]]

\* step() ends with the result r
StepEnds(arg, r) ==
  /\ Becomes(r.s)
  /\ ret' = IF r.exc # ""
            THEN Ret("step", "raise", Exc(r.exc, 0), 0, Passed(arg), NoneV)
            ELSE Ret("step", "return", NoneV, 0, Passed(arg), r.val)
  /\ hist' = [at |-> hist.at, faults |-> hist.faults + StepFaultCount(arg),
              returned |-> Returned(hist.returned, arg, r)]

\* the caller passes arg and the simulator yields what it holds, within
\* the bounds; what it holds matters for the actors it is read for, those
\* whose action is taken and whose step does not fail before the reading
StepOffered(arg) ==
  /\ arg.is_dict => arg.order \in sim.orders
  /\ \A a \in Agents :
       (InOrder(arg.order, a) /\ Has(self.num_steps, a))
          => self.num_steps[a] < MaxNumSteps
  /\ \A a \in Agents :
       InOrder(arg.order, a) =>
          /\ arg.in[a].action \in sim.actions
          /\ (arg.in[a].action \notin BadActions /\ arg.in[a].fault # "early")
               => [reward |-> arg.in[a].reward, reading |-> arg.in[a].reading]
                     \in sim.yields[a]

\* step(action_dict)
Step ==
  /\ pc = "idle"
  /\ \E arg \in StepCalls :
       /\ StepOffered(arg)
       /\ hist.faults + StepFaultCount(arg) <= sim.max_faults
       /\ StepEnds(arg, step(Machine, arg))
  /\ pc' = "returned"
  /\ UNCHANGED <<configs, sim, others, retry, error>>

\* the caller takes the result, and is free to make the next call.  The
\* done map of a step() that completed is self.done_dict itself, and the
\* caller in __main__ writes into it (1112-1115): `done_temp = True; for d
\* in done: done_temp = done_temp and done[d]; done["__all__"] = done_temp`
Continue ==
  /\ pc = "returned"
  /\ pc' = "idle"
  /\ ret' = NoReturn
  /\ retry' = 0
  /\ error' = NoneV
  /\ self' = IF sim.main /\ Completed(ret)
             THEN [self EXCEPT !.done_dict =
                     Put(@, "__all__", \A d \in DOMAIN @ : @[d])]
             ELSE self
  /\ UNCHANGED <<configs, sim, others, live_carla_processes, os, hist>>

\* the host process ends in machine state m, the history being h, while it
\* was at `at`
Exited(m, h, at) ==
  /\ Becomes(m)
  /\ pc' = "exited"
  /\ hist' = [h EXCEPT !.at = at]
  /\ UNCHANGED <<configs, sim, others, retry, error, ret>>

\* SIGTERM or SIGINT arrives between two calls, between two iterations of
\* reset()'s loop, or in init_server's loop, where the client is None
\* (386, 393) or the object just made (389-391): the handler
\* termination_cleanup runs
Signal ==
  /\ pc # "exited"
  /\ sim.signals
  /\ \/ Exited(termination_cleanup(Machine), hist,
               IF pc = "connecting" THEN <<"reset", "init_server">>
               ELSE <<"", "between">>)
     \/ /\ pc = "connecting"
        /\ Exited(termination_cleanup(
                    [Machine EXCEPT !.self.client = self.server_process]),
                  hist, <<"reset", "init_server">>)

\* the signal arrives while the try block whose result is r is at the call
\* an exception leaves it at: the state is the one the call was made in
Interrupted(r, h, at) ==
  /\ r.exc # ""
  /\ ~IsPending(r)
  /\ Exited(termination_cleanup(r.s), h, at)

\* the signal arrives while the handler of that try block runs
\* clear_server_state, or right after it
InterruptedHandler(r, h, op) ==
  /\ r.exc # ""
  /\ ~IsPending(r)
  /\ \E m \in ClearSites(r.s) :
       Exited(termination_cleanup(m), h,
              IF m = clear_server_state(r.s) THEN <<op, "handler">>
              ELSE <<op, "clear_server_state">>)

\* SIGTERM or SIGINT arrives inside an iteration of reset()'s loop, which
\* Python handles between two bytecodes: while init_server starts the
\* simulator, while _reset waits in one of its calls to the simulator or is
\* between two of its statements (the stage names the call or what the
\* statement before has written; nothing fails there), when _reset is about
\* to return, or in the handler of a failed attempt
SignalInReset ==
  /\ sim.signals
  /\ \/ /\ pc = "idle"
        /\ os.launched - Cardinality(OtherGroups) + RETRIES_ON_ERROR <= MaxLaunches
        /\ \A a \in Agents : LiveSensors(os, self, a).camera < MaxSensors
     \/ pc = "reset" /\ retry < RETRIES_ON_ERROR
  /\ \/ /\ self.server_process = 0
        /\ \E m \in InitServerSites(Machine) :
             Exited(termination_cleanup(m), hist, <<"reset", "init_server">>)
     \/ \E launch \in (IF self.server_process = 0 THEN LaunchOutcomes ELSE {"ok"}) :
        \E in \in ResetIns(self) :
          \/ /\ in.fault = NoFault
             /\ hist.faults + ResetFaultCount(launch, in) <= sim.max_faults
             /\ \/ \E f \in ResetFaults \ {NoFault} :
                     Interrupted(ResetTry(Machine, launch, [in EXCEPT !.fault = f]),
                                 ResetHistory(
                                   ResetTry(Machine, launch,
                                            [in EXCEPT !.fault = f]).s,
                                   ResetFaultCount(launch, in)),
                                 <<"reset", "_reset">>)
                \/ \E f \in [stage : {"done_dict", "measurements_file_dict",
                                      "episode_id_dict", "scenario_map",
                                      "scenario", "start_pos",
                                      "CollisionSensor", "LaneInvasionSensor",
                                      "CameraManager", "cameras", "total_reward",
                                      "prev_image", "encode_obs", "obs_dict"},
                             actor : Agents] :
                     /\ ResetTry(Machine, launch, [in EXCEPT !.fault = f]).exc
                          = "SystemExit"
                     /\ Exited(termination_cleanup(
                                 ResetTry(Machine, launch,
                                          [in EXCEPT !.fault = f]).s),
                               ResetHistory(
                                 ResetTry(Machine, launch,
                                          [in EXCEPT !.fault = f]).s,
                                 ResetFaultCount(launch, in)),
                               <<"reset", f.stage, f.actor>>)
                \/ /\ ResetTry(Machine, launch, in).exc = ""
                   /\ Exited(termination_cleanup(ResetTry(Machine, launch, in).s),
                             ResetHistory(ResetTry(Machine, launch, in).s,
                                          ResetFaultCount(launch, in)),
                             <<"reset", "return">>)
          \/ /\ hist.faults + ResetFaultCount(launch, in) <= sim.max_faults
             /\ InterruptedHandler(ResetTry(Machine, launch, in),
                                   ResetHistory(ResetTry(Machine, launch, in).s,
                                                ResetFaultCount(launch, in)),
                                   "reset")

\* SIGTERM or SIGINT arrives inside step(): while _step waits in a call to
\* the simulator for one of the actors (the fault of the argument names the
\* call; nothing fails there), between two statements of _step or of
\* step()'s loop (the site names what the statement before has written),
\* when step() is about to return, or in the handler of a failed step
SignalInStep ==
  /\ pc = "idle"
  /\ sim.signals
  /\ \E arg \in StepCalls :
       /\ StepOffered(arg)
       /\ ~NotReady(self)
       /\ DOMAIN self.actors # {}
       /\ arg.is_dict
       /\ ~UnknownActors(arg.order, self.actors)
       /\ \/ Interrupted(StepTry(Machine, arg), hist, <<"step", "_step">>)
          \/ /\ StepFaultCount(arg) = 0
             /\ \E a \in Agents :
                \E site \in {"total_reward", "prev_measurement", "num_steps",
                             "open", "measurements_file_dict", "write",
                             "prev_image", "encode_obs", "done_dict",
                             "dones"} :
                  /\ InOrder(arg.order, a)
                  /\ StepTry(Machine, [arg EXCEPT !.in[a].fault = site]).exc
                       = "SystemExit"
                  /\ Exited(termination_cleanup(
                              StepTry(Machine,
                                      [arg EXCEPT !.in[a].fault = site]).s),
                            hist, <<"step", site, a>>)
          \/ /\ StepFaultCount(arg) = 0
             /\ StepTry(Machine, arg).exc = ""
             /\ Exited(termination_cleanup(Aggregate(StepTry(Machine, arg).s)),
                       hist, <<"step", "return">>)
          \/ /\ hist.faults + StepFaultCount(arg) <= sim.max_faults
             /\ InterruptedHandler(StepTry(Machine, arg),
                                   [hist EXCEPT !.faults = @ + StepFaultCount(arg)],
                                   "step")

\* clean_world as far as its step `stop`: the sensors the environment
\* refers to, then its actors, are destroyed, cameras first, each dict in
\* insertion order (steps 1 to 4 * n, n the number of agents; a handle of a
\* simulator that is gone, or None, raises); the vehicles left in the world
\* are destroyed (the world raises when there is none or its simulator is
\* gone); then the four dicts are emptied, one after the other (the last
\* four steps).  `at` is the step reached: `stop`, or the last one before
\* the exception `exc`.  Of the simulator the model keeps the sensors
\* attached to the actors.
clean_world(m, stop) ==
  LET n == Len(AgentOrder)
      dicts == <<m.self.cameras, m.self.collisions, m.self.lane_invasions,
                 m.self.actors>>
      kinds == <<"camera", "collision", "lane_invasion", "actor">>
      Present(p) == Has(dicts[((p - 1) \div n) + 1], AgentOrder[((p - 1) % n) + 1])
      Through(p) ==
        IF p > 3 * n THEN m.self.actors[AgentOrder[((p - 1) % n) + 1]]
        ELSE dicts[((p - 1) \div n) + 1][AgentOrder[((p - 1) % n) + 1]].parent
      Broken(p) ==
        Present(p) /\ (Through(p).st = "None" \/ Stale(m.self, Through(p)))
      first == IF \E p \in 1..(4 * n) : Broken(p)
               THEN CHOOSE p \in 1..(4 * n) :
                      Broken(p) /\ \A q \in 1..(p - 1) : ~Broken(q)
               ELSE 4 * n + 1
      exc == IF first <= 4 * n
             THEN (IF Through(first).st = "None" THEN "AttributeError"
                   ELSE "RuntimeError")
             ELSE IF m.self.world = 0 THEN "AttributeError"
             ELSE IF m.self.world # m.self.server_process THEN "RuntimeError"
             ELSE ""
      last == IF exc = "" THEN 4 * n + 4 ELSE first - 1
      at == IF stop < last THEN stop ELSE last
      Destroyed(k, a) ==
        \E p \in 1..at :
          /\ p <= 3 * n
          /\ Present(p)
          /\ kinds[((p - 1) \div n) + 1] = k
          /\ AgentOrder[((p - 1) % n) + 1] = a
      Less(c, k, a) == IF Destroyed(k, a) /\ c > 0 THEN c - 1 ELSE c
      Emptied(d, k) == IF at >= 4 * n + k THEN EmptyDict ELSE d
  IN [s |-> [m EXCEPT
               !.os.world =
                  [a \in DOMAIN @ |->
                     IF @[a].server # m.self.server_process THEN @[a]
                     ELSE [@[a] EXCEPT
                             !.camera = Less(@, "camera", a),
                             !.collision = Less(@, "collision", a),
                             !.lane_invasion = Less(@, "lane_invasion", a)]],
               !.self.cameras = Emptied(@, 1),
               !.self.actors = Emptied(@, 2),
               !.self.collisions = Emptied(@, 3),
               !.self.lane_invasions = Emptied(@, 4)],
      exc |-> IF stop < last THEN "" ELSE exc,
      at |-> at]

\* clean_world, which the host program calls when it is done with reset()
\* and step() (1121), run to its end or to the exception that leaves it
CleanWorld ==
  /\ pc = "idle"
  /\ sim.main
  /\ Becomes(clean_world(Machine, 4 * Len(AgentOrder) + 4).s)
  /\ ret' = IF clean_world(Machine, 4 * Len(AgentOrder) + 4).exc # ""
            THEN Ret("clean_world", "raise",
                     Exc(clean_world(Machine, 4 * Len(AgentOrder) + 4).exc, 0),
                     0, NoArg, NoneV)
            ELSE Ret("clean_world", "return", NoneV, 0, NoArg, NoneV)
  /\ pc' = "cleaned"
  /\ UNCHANGED <<configs, sim, others, retry, error, hist>>

\* SIGTERM or SIGINT arrives inside clean_world, after one of its steps and
\* before the next: some of the sensors and actors are destroyed, or some
\* of the dicts emptied
SignalInCleanWorld ==
  /\ pc = "idle"
  /\ sim.main
  /\ sim.signals
  /\ \E stop \in 1..(4 * Len(AgentOrder) + 3) :
       /\ clean_world(Machine, stop).at = stop
       /\ Exited(termination_cleanup(clean_world(Machine, stop).s), hist,
                 <<"clean_world", IF stop <= 4 * Len(AgentOrder) THEN "destroy"
                                  ELSE "dicts">>)

\* the host program ends between two calls, or after clean_world: atexit
\* runs cleanup
Exit ==
  /\ pc \in {"idle", "cleaned"}
  /\ sim.signals
  /\ Exited(cleanup(Machine), hist, <<"", "between">>)

\* another environment instance of the host process launches its simulator
\* (init_server of that instance), between two calls of this one
OtherEnvLaunch ==
  /\ pc = "idle"
  /\ Cardinality(OtherGroups) < sim.envs
  /\ live_carla_processes' = live_carla_processes \cup {os.launched + 1}
  /\ os' = init_server([self |-> InitSelf, live |-> live_carla_processes,
                        os |-> os], "ok").s.os
  /\ others' = Put(others, os.launched + 1, TRUE)
  /\ UNCHANGED <<configs, sim, self, pc, retry, error, ret, hist>>

\* another environment instance clears its server state (clear_server_state
\* of that instance, in the handler of its reset() or step()), between two
\* calls of this one: its group is killed and leaves the registry
OtherEnvClear ==
  /\ pc = "idle"
  /\ sim.clears
  /\ \E g \in OtherGroups :
       /\ others[g]
       /\ live_carla_processes' = live_carla_processes \ {g}
       /\ os' = [os EXCEPT !.killed = @ \cup {g}]
       /\ others' = Put(others, g, FALSE)
  /\ UNCHANGED <<configs, sim, self, pc, retry, error, ret, hist>>

\* SIGTERM or SIGINT arrives while another environment instance is in its
\* init_server (the simulator started and not registered yet, 369-383, or
\* registered) or in its clear_server_state (the group killed and still in
\* the registry, 441, or out of it and the process not forgotten, 442)
SignalInOther ==
  /\ pc = "idle"
  /\ sim.signals
  /\ \/ /\ Cardinality(OtherGroups) < sim.envs
        /\ \E m \in InitServerSites([self |-> InitSelf,
                                      live |-> live_carla_processes, os |-> os]) :
             /\ Becomes(termination_cleanup([Machine EXCEPT !.live = m.live,
                                                            !.os = m.os]))
             /\ others' = Put(others, os.launched + 1, m.self.server_process # 0)
             /\ hist' = [hist EXCEPT !.at = <<"other", "init_server">>]
     \/ \E g \in OtherGroups :
          /\ sim.clears
          /\ others[g]
          /\ \E m \in ClearSites([self |-> [InitSelf EXCEPT !.server_process = g,
                                                            !.client = g],
                                  live |-> live_carla_processes, os |-> os]) :
               /\ Becomes(termination_cleanup([Machine EXCEPT !.live = m.live,
                                                              !.os = m.os]))
               /\ others' = Put(others, g, m.self.server_process # 0)
               /\ hist' = [hist EXCEPT !.at = <<"other", "clear_server_state">>]
  /\ pc' = "exited"
  /\ UNCHANGED <<configs, sim, retry, error, ret>>

Next ==
  \/ ResetCall \/ ResetRetry \/ ResetRaise \/ Connect \/ Step \/ Continue
  \/ OtherEnvLaunch \/ OtherEnvClear \/ Signal \/ SignalInReset \/ SignalInStep
  \/ SignalInOther \/ CleanWorld \/ SignalInCleanWorld \/ Exit

Spec == Init /\ [][Next]_vars

\* a call of reset() runs on by itself: the iterations of init_server's
\* loop and the raise after reset()'s loop are taken as long as they can
\* change anything, and the call does not rest inside reset()'s loop.  The
\* last conjunct is what WF_vars(ResetRetry) amounts to, an iteration being
\* possible, and a change, wherever the call is in that loop.
FairSpec ==
  /\ InitRun({<<Config(2), HangSim>>})
  /\ [][Next]_vars
  /\ WF_vars(Connect)
  /\ WF_vars(ResetRaise)
  /\ []<>~(pc = "reset" /\ retry < RETRIES_ON_ERROR)

----------------------------------------------------------------------------
(* Properties.  They are stated on ret, the outcome the caller holds when a *)
(* call has just finished, and on the state the call leaves.               *)

\* the environment has no simulator process or no client
NoServer == self.server_process = 0 \/ self.client = 0

\* step() was given a key that is not in the actor registry (a call that
\* raises leaves the registry as it was)
Unknown(r) == \E i \in 1..Len(r.arg.order) : r.arg.order[i] \notin DOMAIN self.actors

\* the value is a map whose keys are among keys
IsMapOver(v, keys) == v.type = "dict" /\ DOMAIN v.d \subseteq keys

\* C1: when step() completes normally, the "__all__" entry of the done map
\* it returns is true if and only if every configured agent id is in the
\* accumulated done set.
C1_AllIffEveryAgentDone ==
  Completed(ret) => (ret.val.done.d["__all__"] = (Agents \subseteq self.dones))

C1_Witness ==
  /\ Completed(ret)
  /\ ret.val.done.d["__all__"] = TRUE
  /\ Agents \subseteq self.dones

\* the measurement of a step that nothing but the step budget can end
NotOtherwiseDone(info) ==
  /\ info.next_command # "REACH_GOAL"
  /\ info.collision = 0
  /\ info.total_reward >= -100

\* C2: for an agent whose scenario has max_steps = 2 and that is not
\* otherwise done, the done flag step() returns is false on the 1st and 2nd
\* step after reset and true from the 3rd step on.
C2_DoneFromThirdStep ==
  Completed(ret) =>
    \A a \in DOMAIN ret.val.info.d :
      (self.scenario_map[a].max_steps = 2 /\ NotOtherwiseDone(ret.val.info.d[a]))
        => (ret.val.done.d[a] = (ret.val.info.d[a].step + 1 >= 3))

\* C3: every value step() returns is a 4-tuple of maps keyed by agent id,
\* the done map carrying "__all__" as well, also when a failure of the
\* per-agent processing was caught.
C3_ReturnsFourMaps ==
  (ret.op = "step" /\ ret.kind = "return") =>
    /\ IsMapOver(ret.val.obs, Agents)
    /\ IsMapOver(ret.val.reward, Agents)
    /\ IsMapOver(ret.val.done, Agents \cup {"__all__"})
    /\ IsMapOver(ret.val.info, Agents)

\* the process groups this environment has launched
OwnGroups == (1..os.launched) \ OtherGroups

\* C4: an exception raised while step() processes the agents of the action
\* map is not propagated (step() raises only from its entry checks); step()
\* returns, and then the environment holds no client and no simulator
\* process, and every process group it launched has been killed and is out
\* of the live-process registry.
C4_StepFailureTearsDown ==
  /\ (ret.op = "step" /\ ret.kind = "raise") =>
        \/ NoServer
        \/ DOMAIN self.actors = {}
        \/ ~ret.arg.is_dict
        \/ Unknown(ret)
  /\ Degraded(ret) =>
        /\ self.client = 0
        /\ self.server_process = 0
        /\ live_carla_processes \cap OwnGroups = {}
        /\ OwnGroups \subseteq os.killed

C4_Witness == Degraded(ret) /\ os.launched >= 1 /\ Len(ret.arg.order) = 2

\* C5: one reset() call makes at most RETRIES_ON_ERROR attempts; it returns
\* the observations of the attempt that succeeds, and when all attempts
\* failed it raises the exception of the last one.
C5_ResetRetries ==
  /\ retry <= RETRIES_ON_ERROR
  /\ (ret.op = "reset" /\ ret.kind = "return") =>
        /\ ret.attempt = retry + 1
        /\ ret.attempt <= RETRIES_ON_ERROR
        /\ ret.val = Dict(self.obs_dict)
  /\ (ret.op = "reset" /\ ret.kind = "raise") =>
        /\ retry = RETRIES_ON_ERROR
        /\ ret.exc.type = "exception"
        /\ ret.exc.attempt = RETRIES_ON_ERROR

C5_Witness ==
  /\ ret.op = "reset"
  /\ ret.kind = "raise"
  /\ ret.exc.attempt = RETRIES_ON_ERROR
  /\ os.launched >= RETRIES_ON_ERROR

\* C6: whenever the environment has no simulator process or no client,
\* step() raises a RuntimeError and changes nothing: not the instance, not
\* the registry of process groups, not the processes.
C6_StepRejectedWithoutServer ==
  [][(pc = "idle" /\ ret'.op = "step" /\ NoServer) =>
        /\ ret'.kind = "raise"
        /\ ret'.exc.name = "RuntimeError"
        /\ self' = self
        /\ live_carla_processes' = live_carla_processes
        /\ os' = os]_vars

\* a step() refused after a teardown
C6_Witness ==
  /\ ret.op = "step"
  /\ ret.kind = "raise"
  /\ ret.exc.name = "RuntimeError"
  /\ NoServer
  /\ os.killed # {}

\* C7: with the simulator up and actors registered, step() called with an
\* action map holding a key that is not in the actor registry raises a
\* ValueError and changes nothing, also when the map holds valid keys.
C7_UnknownActorRejected ==
  [][(/\ pc = "idle"
      /\ ret'.op = "step"
      /\ ~NoServer
      /\ DOMAIN self.actors # {}
      /\ ret'.arg.is_dict
      /\ \E i \in 1..Len(ret'.arg.order) :
            ret'.arg.order[i] \notin DOMAIN self.actors) =>
        /\ ret'.kind = "raise"
        /\ ret'.exc.name = "ValueError"
        /\ self' = self
        /\ live_carla_processes' = live_carla_processes
        /\ os' = os]_vars

C7_Witness ==
  /\ ret.op = "step"
  /\ ret.kind = "raise"
  /\ ret.exc.name = "ValueError"
  /\ ret.arg.order = <<"a1", Ghost>>
  /\ Has(self.actors, "a1")
  /\ ~NoServer

\* C8: whenever reset() returns, the key set of the observation map it
\* returns is the set of configured agent ids.
C8_ResetReturnsEveryAgent ==
  (ret.op = "reset" /\ ret.kind = "return") =>
    (ret.val.type = "dict" /\ DOMAIN ret.val.d = Agents)

\* a reset() that returns after a failed attempt and earlier steps
C8_Witness ==
  /\ ret.op = "reset"
  /\ ret.kind = "return"
  /\ ret.attempt > 1
  /\ \E a \in Agents : self.num_steps[a] > 0

\* C9: for every agent, after a step() that includes it, its running total
\* is the sum of the rewards step() has returned for it since its last
\* reset.
C9_TotalIsSumOfReturned ==
  \A a \in Agents :
    (Has(self.num_steps, a) /\ self.num_steps[a] >= 1) =>
       /\ self.total_reward[a].type = "float"
       /\ self.total_reward[a].f = hist.returned[a]

\* step() was given an action that is a list of a length other than two
Misshaped(r) ==
  \E i \in 1..Len(r.arg.actions) :
    r.arg.actions[i].type = "list" /\ Len(r.arg.actions[i].l) # 2

\* C11: with the simulator up and actors registered, step() called with a
\* dict in which some action is not a pair raises to the caller: it does not
\* return (so no degraded result), and it leaves the simulator process and
\* the client as they were, killing no process group.
C11_BadShapeRaised ==
  [][(/\ pc = "idle"
      /\ ret'.op = "step"
      /\ ~NoServer
      /\ DOMAIN self.actors # {}
      /\ ret'.arg.is_dict
      /\ Misshaped(ret')) =>
        /\ ret'.kind = "raise"
        /\ self'.server_process = self.server_process
        /\ self'.client = self.client
        /\ os'.killed = os.killed]_vars

\* C10: when the configured frame-stack depth is outside {1, 2}, reset()
\* raises on its first attempt: no process group is killed, none is launched
\* after the first, and no further attempt is made.
C10_ConfigErrorNotRetried ==
  configs.framestack \notin {1, 2} =>
    /\ os.killed = {}
    /\ os.launched <= 1
    /\ retry <= 1
    /\ ret.op = "reset" => (ret.kind = "raise" /\ ret.attempt = 1)

\* C12: with frame-stack depth 2, in the observations reset() returns, the
\* observation of every agent it reset is that agent's current image
\* stacked with itself.
C12_FirstObservationSelfStacked ==
  (configs.framestack = 2 /\ ret.op = "reset" /\ ret.kind = "return") =>
    \A a \in Agents :
      WasReset(self, a) =>
        /\ Len(ret.val.d[a].image) = 2
        /\ ret.val.d[a].image[2].actor = a
        /\ ret.val.d[a].image[1] = ret.val.d[a].image[2]

\* C13: the episode id of an agent changes only in an attempt of reset()
\* that takes the hard reset path for it, the agent not being in the actor
\* registry: a soft reset, step() (degraded or not) and the teardown after a
\* failed attempt leave it as it is.
C13_EpisodeIdOnlyAtHardReset ==
  [][\A a \in Agents :
       (/\ Has(self'.episode_id_dict, a)
        /\ Has(self.episode_id_dict, a) =>
              self'.episode_id_dict[a] # self.episode_id_dict[a]) =>
         /\ pc \in {"idle", "reset"}
         /\ ret'.op # "step"
         /\ hist'.at[1] # "step"
         /\ ~Has(self.actors, a)]_vars

\* reset() returned after the soft reset of an agent that a step had found
\* done, and no episode id beyond the first of each agent was ever assigned
C13_Witness ==
  /\ ret.op = "reset"
  /\ ret.kind = "return"
  /\ os.clock = Cardinality(Agents)
  /\ \E a \in self.dones : WasReset(self, a)

\* C14: a hard reset binds the agent to a spawned actor that rests above
\* ground level or raises a spawn failure: no actor spawned at or below
\* ground level is ever the handle of an agent in the registry.
C14_HandleAboveGround ==
  \A a \in DOMAIN self.actors :
    self.actors[a].st # "None" => self.actors[a].z > 0

\* C15: when an interrupt or terminate signal arrives, or the host process
\* exits normally, every process group that is in the live-process registry
\* at that moment has been force-killed when the host process is gone,
\* whichever environment instance registered it.
C15_ExitKillsEveryRegistered ==
  [][(pc # "exited" /\ pc' = "exited") =>
        (live_carla_processes \cup live_carla_processes') \subseteq os'.killed]_vars

\* the host process is gone; this environment and two others had a
\* simulator running
C15_Witness ==
  /\ pc = "exited"
  /\ self.server_process \in live_carla_processes
  /\ Cardinality(OtherGroups) >= 2
  /\ live_carla_processes \subseteq os.killed

\* s is an initial part of t
IsPrefix(s, t) == Len(s) <= Len(t) /\ SubSeq(t, 1, Len(s)) = s

\* C16: the measurement log of an episode id is append-only: whatever
\* step() or reset() does, a log file that exists goes on existing and the
\* lines written to it so far stay its first lines.
C16_LogAppendOnly ==
  [][\A e \in DOMAIN os.files :
       /\ e \in DOMAIN os'.files
       /\ IsPrefix(os.files[e], os'.files[e])]_vars

\* the keys of the action map step() was called with
Keys(r) == {r.arg.order[i] : i \in 1..Len(r.arg.order)}

\* C17: when step() completes normally, the observation, reward and info
\* maps it returns have exactly the keys of the action map, and the done map
\* exactly those keys and "__all__": no agent that was not in the action
\* map appears in the result.
C17_ResultKeysAreActionKeys ==
  Completed(ret) =>
    /\ DOMAIN ret.val.obs.d = Keys(ret)
    /\ DOMAIN ret.val.reward.d = Keys(ret)
    /\ DOMAIN ret.val.info.d = Keys(ret)
    /\ DOMAIN ret.val.done.d = Keys(ret) \cup {"__all__"}

\* the control each index of the table stands for, in hundredths:
\* <<throttle, brake, steer>>
Expected ==
  [i \in 0..8 |->
     CASE i = 0 -> <<0, 0, 0>>
       [] i = 1 -> <<0, 0, -50>>
       [] i = 2 -> <<0, 0, 50>>
       [] i = 3 -> <<60, 0, 0>>
       [] i = 4 -> <<0, 50, 0>>
       [] i = 5 -> <<50, 0, -5>>
       [] i = 6 -> <<50, 0, 5>>
       [] i = 7 -> <<0, 50, -50>>
       [] i = 8 -> <<0, 50, 50>>]

\* the control in the measurement step() returned for its k-th key
ControlOf(r, k) == r.val.info.d[r.arg.order[k]].control

\* C18: with discrete actions and no logit squashing, a step that completes
\* was given indices 0..8 only, and the control of each is the one the table
\* gives with the throttle clamped to [0, 0.6], the brake to [0, 1] and the
\* steer to [-1, 1]: index 0 is throttle 0, brake 0, steer 0, and index 4 is
\* throttle 0, brake 0.5, steer 0.
C18_DiscreteDecoding ==
  (configs.discrete_actions /\ Completed(ret)) =>
    \A k \in 1..Len(ret.arg.order) :
      /\ ret.arg.actions[k].type = "int"
      /\ ret.arg.actions[k].i \in 0..8
      /\ <<ControlOf(ret, k).throttle, ControlOf(ret, k).brake,
           ControlOf(ret, k).steer>> = Expected[ret.arg.actions[k].i]
      /\ ControlOf(ret, k).throttle \in 0..60
      /\ ControlOf(ret, k).brake \in 0..100
      /\ ControlOf(ret, k).steer \in -100..100
      /\ ret.arg.actions[k].i = 0 =>
            ControlOf(ret, k) = [throttle |-> 0, brake |-> 0, steer |-> 0]
      /\ ret.arg.actions[k].i = 4 =>
            ControlOf(ret, k) = [throttle |-> 0, brake |-> 50, steer |-> 0]

\* the second step of an episode, given index 4 (brake)
C18_Witness ==
  /\ configs.discrete_actions
  /\ Completed(ret)
  /\ ret.arg.actions = <<Index(4)>>
  /\ ControlOf(ret, 1).brake = 50
  /\ ret.val.info.d["a1"].step = 1

\* the step is one attempt of reset(): the first of a call or a later one
ResetAttempt ==
  \/ pc = "idle" /\ pc' \in {"reset", "returned"} /\ ret'.op # "step"
  \/ pc = "reset" /\ retry < RETRIES_ON_ERROR
       /\ pc' \in {"reset", "returned"} /\ <<pc, retry>>' # <<pc, retry>>

\* the step is an attempt of reset(), or the part of one that ran before
\* a signal ended the host process
InReset ==
  \/ ResetAttempt
  \/ /\ pc \in {"idle", "reset"}
     /\ pc' = "exited"
     /\ hist'.at[1] = "reset"

\* C19: an attempt of reset() that starts without simulator process, after
\* a failed attempt of the same call or after an earlier teardown, and in
\* which the simulator does not fail, takes the hard reset path for every
\* configured agent: reset() returns, every agent has a new episode and its
\* handle is an actor spawned in the simulator just launched, none being a
\* handle of a torn-down simulator or an empty one.
C19_HardResetAfterTeardown ==
  [][(/\ ResetAttempt
      /\ configs.framestack \in {1, 2}
      /\ self.server_process = 0
      /\ pc = "reset" \/ os.killed # {}
      /\ hist'.faults = hist.faults) =>
        /\ pc' = "returned"
        /\ ret'.kind = "return"
        /\ \A a \in Agents :
             /\ Has(self'.actors, a)
             /\ self'.actors[a].st # "None"
             /\ self'.actors[a].server = self'.server_process
             /\ self'.episode_id_dict[a] > os.clock]_vars

\* C20: when reset() has returned, every agent it reset is no longer done:
\* its entry in the done map is false and it is not in the done set, so
\* nothing of the previous episode is carried into the following steps.
C20_ResetClearsDone ==
  (ret.op = "reset" /\ ret.kind = "return") =>
    \A a \in Agents :
      WasReset(self, a) =>
        /\ Has(self.done_dict, a) => self.done_dict[a] = FALSE
        /\ a \notin self.dones

\* C21: in every step() that completes normally, the done flag returned for
\* an agent is true exactly when its step counter before the step exceeds
\* max_steps of the scenario (the environment's current one), or the
\* command measured is REACH_GOAL, or early termination is configured for it
\* and a collision counter is positive or its running total is below -100;
\* without early termination neither a collision nor the floor ends it.
C21_DoneFormula ==
  Completed(ret) =>
    \A a \in Keys(ret) :
      ret.val.done.d[a] =
        (\/ ret.val.info.d[a].step > self.scenario.max_steps
         \/ ret.val.info.d[a].next_command = "REACH_GOAL"
         \/ /\ configs.actors[a].early_terminate_on_collision
            /\ \/ ret.val.info.d[a].collision > 0
               \/ ret.val.info.d[a].total_reward < -100)

\* one step in which the agent without early termination has collided and
\* its running total is below the floor, and goes on, while the agent with
\* early termination, which has not collided, is ended by the floor alone
C21_Witness ==
  /\ Completed(ret)
  /\ Keys(ret) = Agents
  /\ \A a \in Agents :
       /\ ret.val.info.d[a].total_reward < -100
       /\ ret.val.info.d[a].step <= self.scenario.max_steps
       /\ ret.val.info.d[a].next_command # "REACH_GOAL"
       /\ ret.val.done.d[a] = configs.actors[a].early_terminate_on_collision
       /\ (ret.val.info.d[a].collision > 0) =
            ~configs.actors[a].early_terminate_on_collision
  /\ \E a \in Agents : ~configs.actors[a].early_terminate_on_collision
  /\ \E a \in Agents : configs.actors[a].early_terminate_on_collision

\* C22: whenever reset() raises, its attempts exhausted, the environment
\* holds no simulator process and no client, and every process group it
\* launched has been killed and is out of the live-process registry.
C22_RaiseLeavesNothingRunning ==
  (ret.op = "reset" /\ ret.kind = "raise") =>
    /\ self.server_process = 0
    /\ self.client = 0
    /\ OwnGroups \subseteq os.killed
    /\ OwnGroups \cap live_carla_processes = {}

\* reset() raised after launching a simulator in each of its attempts, the
\* simulator of another environment running all along
C22_Witness ==
  /\ ret.op = "reset"
  /\ ret.kind = "raise"
  /\ Cardinality(OwnGroups) >= RETRIES_ON_ERROR
  /\ OtherGroups # {}
  /\ OtherGroups \subseteq live_carla_processes \ os.killed

\* the process groups of the simulator processes the environment instances
\* of the host process hold
HeldGroups == {g \in OtherGroups : others[g]} \cup ({self.server_process} \ {0})

\* C23: between the calls, the live-process registry is the set of process
\* groups of the simulator processes that the environment instances of the
\* host process hold (each instance holds one process at most), and this
\* environment launches a simulator only when it holds none, one at a time.
C23_RegistryIsHeldGroups ==
  /\ [](hist.at[2] \notin {"init_server", "clear_server_state"}
          => live_carla_processes = HeldGroups)
  /\ [][(os'.launched > os.launched /\ others' = others) =>
           /\ self.server_process = 0
           /\ os'.launched = os.launched + 1]_vars

\* this environment holds its second simulator, another environment the
\* first one launched
C23_Witness ==
  /\ self.server_process # 0
  /\ OtherGroups # {}
  /\ OwnGroups \cap os.killed # {}
  /\ live_carla_processes = OtherGroups \cup {self.server_process}
  /\ Cardinality(live_carla_processes) = 2

\* what the environment keeps of agent a: handle, sensors, counters,
\* measurement, scenario and episode id
Kept(s, a) ==
  <<s.actors[a], s.cameras[a], s.collisions[a], s.lane_invasions[a],
    s.num_steps[a], s.total_reward[a], s.prev_measurement[a],
    s.scenario_map[a], s.episode_id_dict[a]>>

\* C24: an attempt of reset() leaves alone every agent whose done flag is
\* false: its handle, its sensors, step counter, running total, previous
\* measurement, scenario and episode id are as before (a spawn would store
\* its result as the handle), and the simulator was asked for nothing on
\* its behalf: what it holds for the agent's actor (the sensors attached,
\* the teleports) is as before.
C24_ResetLeavesActiveAgents ==
  [][\A a \in Agents :
       (/\ InReset
        /\ Has(self.done_dict, a)
        /\ self.done_dict[a] = FALSE) =>
         /\ Kept(self', a) = Kept(self, a)
         /\ Has(os.world, a)
         /\ Has(os'.world, a)
         /\ os'.world[a] = os.world[a]]_vars

\* reset() returned having reset one agent, found done by a step, by a
\* teleport, and not the other, which is in its episode still and which the
\* simulator they share has never teleported
C24_Witness ==
  /\ ret.op = "reset"
  /\ ret.kind = "return"
  /\ \E a \in Agents :
       /\ self.done_dict[a] = FALSE
       /\ self.num_steps[a] >= 2
       /\ self.total_reward[a].type = "float"
       /\ os.world[a].teleports = 0
       /\ \E b \in self.dones :
            /\ WasReset(self, b)
            /\ os.world[b].server = os.world[a].server
            /\ os.world[b].teleports > 0

\* the scenario and the positions agent a has in s, if any
Route(s, a) ==
  [scenario |-> IF Has(s.scenario_map, a) THEN <<s.scenario_map[a]>> ELSE <<>>,
   start_pos |-> IF Has(s.start_pos, a) THEN <<s.start_pos[a]>> ELSE <<>>,
   end_pos |-> IF Has(s.end_pos, a) THEN <<s.end_pos[a]>> ELSE <<>>]

\* C25: the scenario of an agent and its start and end position change only
\* in an attempt of reset() that takes the hard reset path for that agent,
\* the agent being done and not in the actor registry; after such an
\* attempt they are a scenario of the agent's own table and the positions
\* of that scenario, whichever agents were hard-reset after it.  A soft
\* reset and step() leave them as they are.  The three are written one
\* after the other (586-591): when a signal ends the host process in
\* between, those written are as said and the others as before.
C25_RouteOnlyAtOwnHardReset ==
  [][\A a \in Agents :
       Route(self', a) # Route(self, a) =>
         /\ InReset
         /\ ~Has(self.actors, a)
         /\ Has(self.done_dict, a) => self.done_dict[a] = TRUE
         /\ self'.scenario_map[a] \in configs.actors[a].scenarios
         /\ IF pc' = "exited"
               /\ hist'.at \in {<<"reset", "scenario_map", a>>,
                                <<"reset", "scenario", a>>}
            THEN Route(self', a).start_pos = Route(self, a).start_pos
            ELSE self'.start_pos[a] =
                   pos_coor_map[self'.scenario_map[a].start_pos_id]
         /\ IF pc' = "exited"
               /\ hist'.at \in {<<"reset", "scenario_map", a>>,
                                <<"reset", "scenario", a>>,
                                <<"reset", "start_pos", a>>}
            THEN Route(self', a).end_pos = Route(self, a).end_pos
            ELSE self'.end_pos[a] =
                   pos_coor_map[self'.scenario_map[a].end_pos_id]]_vars

\* reset() returned after the soft reset of an agent whose table has two
\* scenarios; the other agent, hard-reset after it, resolved another
\* scenario with other positions
C25_Witness ==
  /\ ret.op = "reset"
  /\ ret.kind = "return"
  /\ Cardinality(configs.actors["a1"].scenarios) = 2
  /\ "a1" \in self.dones
  /\ WasReset(self, "a1")
  /\ self.scenario # self.scenario_map["a1"]
  /\ self.start_pos["a1"] = pos_coor_map[self.scenario_map["a1"].start_pos_id]
  /\ self.start_pos["a1"] # self.start_pos["a2"]

\* C26: every call of reset() ends: once in its loop, the call returns or
\* raises (or the host process is ended by a signal), also when the
\* simulator launched never reports a server version.
C26_ResetTerminates ==
  (pc \in {"reset", "connecting"}) ~> (pc \in {"returned", "exited"})

\* the handle of agent a and its three sensors live in the simulator
\* process that the environment s holds
Alive(s, a) ==
  /\ Has(s.actors, a)
  /\ s.actors[a].st # "None"
  /\ s.actors[a].server = s.server_process
  /\ \A sensors \in {s.cameras, s.collisions, s.lane_invasions} :
       Has(sensors, a) /\ sensors[a].parent.server = s.server_process

\* C27: when reset() has returned, every configured agent has a handle, and
\* the handle and the agent's camera, collision and lane sensors were
\* created in the simulator process the environment holds.
C27_ResetLeavesLiveHandles ==
  (ret.op = "reset" /\ ret.kind = "return") =>
    /\ self.server_process # 0
    /\ \A a \in Agents : Alive(self, a)

\* C28: in the done map of a step() that completed, "__all__" is true only
\* if the map holds a true done flag for every configured agent.
C28_AllImpliesEveryFlag ==
  (Completed(ret) /\ ret.val.done.d["__all__"]) =>
    \A a \in Agents : Has(ret.val.done.d, a) /\ ret.val.done.d[a]

\* C29: the step budget that ends an agent's episode is the max_steps of
\* the scenario resolved for that agent: for an agent that is not otherwise
\* done, the done flag step() returns tells whether its step counter has
\* passed the max_steps of its own scenario.
C29_OwnStepBudget ==
  Completed(ret) =>
    \A a \in DOMAIN ret.val.info.d :
      NotOtherwiseDone(ret.val.info.d[a]) =>
        (ret.val.done.d[a] =
           (ret.val.info.d[a].step > self.scenario_map[a].max_steps))

\* the last step() of agent a in its episode found it done: the agent has
\* a running total, so it was stepped since it was last reset, and its flag
\* is the one that step wrote
FoundDone(s, a) ==
  /\ Has(s.done_dict, a)
  /\ s.done_dict[a] = TRUE
  /\ Has(s.total_reward, a)
  /\ s.total_reward[a].type = "float"

\* C30: once step() has returned done = true for an agent, every later
\* step() that includes the agent returns done = true for it as long as no
\* reset() has reset the agent.
C30_DoneStaysDone ==
  [][\A a \in Agents :
       (/\ FoundDone(self, a)
        /\ Completed(ret')
        /\ a \in Keys(ret')) => ret'.val.done.d[a] = TRUE]_vars

\* C31: at every point the simulator the environment holds has at most one
\* live collision sensor, one live lane-invasion sensor and one live camera
\* attached to the actor of each agent.
C31_OneSensorOfEachKind ==
  \A a \in Agents :
    /\ LiveSensors(os, self, a).collision <= 1
    /\ LiveSensors(os, self, a).lane_invasion <= 1
    /\ LiveSensors(os, self, a).camera <= 1

\* C32: with frame-stack depth 2, in every observation that a completing
\* step() returns for an agent, the first half of the stack is an image of
\* that agent, never one of another agent.
C32_PreviousHalfIsOwnImage ==
  (configs.framestack = 2 /\ Completed(ret)) =>
    \A a \in DOMAIN ret.val.obs.d :
      /\ Len(ret.val.obs.d[a].image) = 2
      /\ ret.val.obs.d[a].image[2].actor = a
      /\ ret.val.obs.d[a].image[1].actor = a

====
